---- MODULE Spec2Model ----
(***************************************************************************)
(* Model of src/bot.py: a Telegram temp-mail bot that keeps one mail.tm    *)
(* account per chat user in the global dict user_sessions and rewrites     *)
(* data.json after every mutation.                                         *)
(*                                                                         *)
(* Every command handler is one action: the handlers call the blocking     *)
(* requests library and only await when they send a reply, and the         *)
(* application takes the next update when the handler of the last one has  *)
(* ended.  What the outside world answers (HTTP statuses, bodies, the      *)
(* outcome of writing data.json, the random bytes of os.urandom, whether   *)
(* Telegram accepts a reply) is an input of the action, drawn from the     *)
(* small sets below.                                                       *)
(***************************************************************************)
EXTENDS Integers, Sequences, FiniteSets, TLC

VARIABLES
    user_sessions,  \* the global dict: user id -> [address, password, jwt]
    data_file,      \* data.json on disk
    last,           \* the last handler run: command, user, upstream answers, calls made, reply
    loaded,         \* what the module-level load left: a dict, a list, or no process ("failed")
    suspended,      \* per user, the handler coroutines waiting in an await reply_text
    checking        \* per user, the get_mail coroutines waiting between the check of
                    \* line 101 and the try block of line 109

vars == <<user_sessions, data_file, last, loaded, suspended, checking>>

----------------------------------------------------------------------------
(* Bounds and input sets *)

MaxPages == 2       \* pages the upstream inbox listing is split into
MaxPageLen == 1     \* message summaries on one upstream page
MaxTasks == 2       \* handler coroutines in flight at the same time, where they overlap

Users == {"1001", "1002"}            \* str(update.effective_user.id)
Locals == {"a1b2c3d4e5f6", "0f0e0d0c0b0a"}   \* os.urandom(6).hex()
Passwords == {"5ec2e7"}              \* os.urandom(12).hex()
Tokens == {"jwt-1"}                  \* strings the /token body may carry
Msgs == {"m1", "m2"}                 \* message summaries of the upstream inbox

FixedDomain == "mailto.plus"
UpstreamDomainSets == {{}, {"mailto.plus", "other.tm"}}   \* answers of GET /domains

PreviewLimit == 5

Null == "<None>"                     \* Python None / JSON null
EmptyMap == <<>>                     \* the empty dict {}

NoAddress == [local |-> "", domain |-> ""]

Min(a, b) == IF a < b THEN a ELSE b

RECURSIVE Concat(_)
Concat(pages) ==
    IF pages = <<>> THEN <<>> ELSE Head(pages) \o Concat(Tail(pages))

SeqsUpTo(S, n) == UNION {[1..k -> S] : k \in 0..n}

\* the set S, its elements listed
Listed(S) == {x : x \in S}

\* a summary whose "from" is null: msg.get("from", {}) is None and the
\* .get("address", ...) on it raises AttributeError
NullFrom == "m-from-null"

\* a page with one summary more than inbox() renders, not in sorted order
LongPage == <<"m3", "m6", "m1", "m5", "m2", "m4">>

\* An upstream listing: one or more pages; a message is listed once (message
\* ids are unique within a mailbox) and only the last page may be empty
NoRepeat(seq) == \A i, j \in DOMAIN seq : seq[i] = seq[j] => i = j
Pages == SeqsUpTo(Msgs, MaxPageLen)
PageLists ==
    Listed({ps \in SeqsUpTo(Pages, MaxPages) :
        /\ Len(ps) >= 1
        /\ NoRepeat(Concat(ps))
        /\ \A i \in 1..(Len(ps) - 1) : ps[i] # <<>>})

----------------------------------------------------------------------------
(* Answers of the outside world *)

\* POST /accounts: the call raises, or returns with a status code
RegOutcomes ==
    {[raised |-> TRUE, status |-> 0]}
        \cup {[raised |-> FALSE, status |-> s] : s \in {200, 201, 422}}

\* POST /token: the call raises, the status is an error, the body is not
\* JSON, the JSON object has no "token" key, or it carries a token string
LoginOutcomes ==
    {[kind |-> k, token |-> Null] : k \in {"exc", "http_error", "bad_json", "no_token"}}
        \cup {[kind |-> "token", token |-> t] : t \in Tokens}

\* GET /messages: as above, or a first page that lacks "hydra:member", or
\* a listing of one or more pages of which the response is the first
FetchOutcomes ==
    {[kind |-> k, pages |-> <<>>] : k \in {"exc", "http_error", "bad_json", "no_member"}}
        \cup {[kind |-> "page", pages |-> ps] : ps \in PageLists}
        \cup {[kind |-> "page", pages |-> <<LongPage>>]}
        \cup {[kind |-> "page", pages |-> <<<<NullFrom>>>>],
              [kind |-> "page", pages |-> <<<<"m1", NullFrom>>>>]}

\* update.message.reply_text(...): every call returns; the first call of the
\* handler raises a TelegramError (timed out, bot blocked) and a second one
\* returns; both raise; or the update carries no message (an edited command),
\* update.message is None and each update.message.reply_text raises
\* AttributeError before anything is sent
ReplyOutcomes == {"sent", "first_fails", "both_fail", "no_message"}

\* open(DATA_FILE, "w") + json.dump: succeeds, open() raises (file untouched),
\* or the write raises after open() truncated the file
SaveOutcomes == {"ok", "open_fail", "write_fail"}

\* What the outside world answers during one getmail.  An answer exists only
\* for a request that is made: after a failed registration there is no login
\* answer to choose, after a failed login no write of data.json.
RegFails(regOut) == regOut.raised \/ regOut.status \notin {200, 201}
LoginFails(loginOut) == loginOut.kind \in {"exc", "http_error", "bad_json"}
Worlds ==
    Listed({w \in [reg : RegOutcomes, login : LoginOutcomes, save : SaveOutcomes] :
        /\ RegFails(w.reg) => w.login = [kind |-> "exc", token |-> Null]
        /\ (RegFails(w.reg) \/ LoginFails(w.login)) => w.save = "ok"})

----------------------------------------------------------------------------
(* data.json *)

JsonDump(sessions) == [kind |-> "json", content |-> sessions]

\* lines 39-46: the module-level load
LoadSessions(file) ==
    IF file.kind = "absent" THEN EmptyMap
    ELSE IF file.kind = "truncated" THEN EmptyMap   \* json.JSONDecodeError
    ELSE file.content

\* The load catches json.JSONDecodeError only.  open() on an unreadable file
\* raises OSError and reading bytes that are not UTF-8 raises
\* UnicodeDecodeError: the import of the module fails and no process runs.
\* A document that is valid JSON but no object (here the list []) is bound
\* to user_sessions as it is.
LoadedType(file) ==
    IF file.kind \in {"unreadable", "undecodable"} THEN "failed"
    ELSE IF file.kind = "json_list" THEN "list"
    ELSE "dict"

\* data.json files whose content is corrupt or cannot be read
CorruptFiles ==
    {[kind |-> k, content |-> EmptyMap] :
        k \in {"truncated", "undecodable", "unreadable", "json_list"}}

\* save_sessions(): result is whether it raised and the file left on disk
save_sessions(sessions, file, saveOut) ==
    IF saveOut = "ok" THEN [raised |-> FALSE, file |-> JsonDump(sessions)]
    ELSE IF saveOut = "open_fail" THEN [raised |-> TRUE, file |-> file]
    ELSE [raised |-> TRUE, file |-> [kind |-> "truncated", content |-> EmptyMap]]

\* what a reader of data.json gets for one user
FileRecords(file) == IF file.kind = "json" THEN file.content ELSE EmptyMap

----------------------------------------------------------------------------
(* dict operations on user_sessions *)

Put(sessions, u, rec) ==
    [x \in (DOMAIN sessions) \cup {u} |-> IF x = u THEN rec ELSE sessions[x]]

\* del that removes nothing
Del_keeps(sessions, u) == sessions

Del(sessions, u) ==
    [x \in (DOMAIN sessions) \ {u} |-> sessions[x]]

----------------------------------------------------------------------------
(* Observations: the HTTP calls a handler issued and the reply it sent *)

Call(op, address, password, bearer) ==
    [op |-> op, address |-> address, password |-> password, bearer |-> bearer]

Reply(kind, address, err, rendered) ==
    [kind |-> kind, address |-> address, err |-> err, rendered |-> rendered]

\* replies sent from inside the try block of get_mail (line 120) and of
\* inbox (lines 141, 153)
InTry(kind) == kind \in {"created", "empty", "messages"}

\* the reply of the except branch (lines 124-125, 154-155)
ErrorKind(cmd) == IF cmd = "getmail" THEN "error_create" ELSE "error_fetch"

\* reply_text raised exc while the handler was sending reply: inside a try
\* block the except branch sends its error reply, elsewhere the exception
\* leaves the handler
AfterRaise(cmd, reply, exc) ==
    IF InTry(reply.kind)
    THEN Reply(ErrorKind(cmd), NoAddress, exc, <<>>)
    ELSE Reply("unhandled", NoAddress, exc, <<>>)

\* How a handler that has reply to send ends: with that reply delivered, with
\* the error reply of its except branch delivered, or left by an exception.
\* A handler an exception has left already sends nothing.
Deliver(cmd, reply, replyOut) ==
    IF reply.kind = "unhandled" \/ replyOut = "sent" THEN reply
    ELSE IF replyOut = "no_message"
    THEN Reply("unhandled", NoAddress, "AttributeError", <<>>)
    ELSE LET second == AfterRaise(cmd, reply, "TelegramError")
         IN  IF second.kind = "unhandled" \/ replyOut = "first_fails"
             THEN second
             ELSE AfterRaise(cmd, second, "TelegramError")

\* What the upstream service held or answered while the handler ran: its
\* domain list, the status code of the POST /accounts response (0 when there
\* was no response) and the token of the /token body (recorded when the try
\* block of get_mail runs), and the GET /messages answer with the inbox's pages.
Upstream(domains, status, token, fetch, pages) ==
    [domains |-> domains, status |-> status, token |-> token,
     fetch |-> fetch, pages |-> pages]

NoUpstream == Upstream({}, 0, Null, "none", <<>>)

Last(cmd, u, upstream, calls, messages, reply) ==
    [cmd |-> cmd, user |-> u, upstream |-> upstream, calls |-> calls,
     messages |-> messages, reply |-> reply]

----------------------------------------------------------------------------
(* Helpers for mail.tm *)

\* create_account that takes every response for a success
create_account_anystatus(local, password, regOut) ==
    LET payload == [address |-> [local |-> local, domain |-> FixedDomain],
                    password |-> password]
        calls == <<Call("POST /accounts", payload.address, payload.password, Null)>>
    IN  IF regOut.raised
        THEN [raised |-> TRUE, err |-> "RequestException", calls |-> calls, payload |-> payload]
        ELSE [raised |-> FALSE, err |-> "", calls |-> calls, payload |-> payload]

\* create_account(): the address is random hex + "@mailto.plus"; one POST
\* /accounts; RuntimeError unless the status is 200 or 201
create_account(local, password, regOut) ==
    LET payload == [address |-> [local |-> local, domain |-> FixedDomain],
                    password |-> password]
        calls == <<Call("POST /accounts", payload.address, payload.password, Null)>>
    IN  IF regOut.raised
        THEN [raised |-> TRUE, err |-> "RequestException", calls |-> calls, payload |-> payload]
        ELSE IF regOut.status \notin {200, 201}
        THEN [raised |-> TRUE, err |-> "RuntimeError", calls |-> calls, payload |-> payload]
        ELSE [raised |-> FALSE, err |-> "", calls |-> calls, payload |-> payload]

\* get_token_for_account(): one POST /token; raise_for_status(); then
\* resp.json().get("token"), which is None when the key is missing
get_token_for_account(address, password, loginOut) ==
    LET calls == <<Call("POST /token", address, password, Null)>>
    IN  IF loginOut.kind = "exc"
        THEN [raised |-> TRUE, err |-> "RequestException", calls |-> calls, jwt |-> Null]
        ELSE IF loginOut.kind = "http_error"
        THEN [raised |-> TRUE, err |-> "HTTPError", calls |-> calls, jwt |-> Null]
        ELSE IF loginOut.kind = "bad_json"
        THEN [raised |-> TRUE, err |-> "JSONDecodeError", calls |-> calls, jwt |-> Null]
        ELSE IF loginOut.kind = "no_token"
        THEN [raised |-> FALSE, err |-> "", calls |-> calls, jwt |-> Null]
        ELSE [raised |-> FALSE, err |-> "", calls |-> calls, jwt |-> loginOut.token]

\* get_messages with every failure swallowed into an empty listing
get_messages_swallow(jwt_token, fetchOut) ==
    [raised |-> FALSE, err |-> "",
     calls |-> <<Call("GET /messages", NoAddress, "", jwt_token)>>,
     messages |-> IF fetchOut.kind = "page" THEN fetchOut.pages[1] ELSE <<>>]

\* get_messages(): one GET /messages; raise_for_status(); then
\* resp.json().get("hydra:member", []) of that one response
get_messages(jwt_token, fetchOut) ==
    LET fetchKind == fetchOut.kind
        pages == fetchOut.pages
    IN
    (
    LET calls == <<Call("GET /messages", NoAddress, "", jwt_token)>>
    IN  IF fetchKind = "exc"
        THEN [raised |-> TRUE, err |-> "RequestException", calls |-> calls, messages |-> <<>>]
        ELSE IF fetchKind = "http_error"
        THEN [raised |-> TRUE, err |-> "HTTPError", calls |-> calls, messages |-> <<>>]
        ELSE IF fetchKind = "bad_json"
        THEN [raised |-> TRUE, err |-> "JSONDecodeError", calls |-> calls, messages |-> <<>>]
        ELSE IF fetchKind = "no_member"
        THEN [raised |-> FALSE, err |-> "", calls |-> calls, messages |-> <<>>]
        ELSE [raised |-> FALSE, err |-> "", calls |-> calls, messages |-> pages[1]]
    )

\* the reply_lines of inbox(): one block per message of messages[:5]
RenderInbox(messages) == SubSeq(messages, 1, Min(Len(messages), PreviewLimit))

\* building a block fails on a summary whose "from" is null (line 146)
RenderRaises(messages) ==
    \E i \in 1..Min(Len(messages), PreviewLimit) : messages[i] = NullFrom

----------------------------------------------------------------------------
(* Command handlers *)

start(u, replyOut) ==
    /\ last' = Last("start", u, NoUpstream, <<>>, <<>>,
                    Deliver("start", Reply("welcome", NoAddress, "", <<>>), replyOut))
    /\ UNCHANGED <<user_sessions, data_file>>

\* the try block of get_mail (lines 109-125) with its except branch
provision(u, local, password, domains, regOut, loginOut, saveOut, replyOut) ==
    LET account == create_account(local, password, regOut)
    IN  IF account.raised
        THEN /\ last' = Last("getmail", u, Upstream(domains, regOut.status, Null, "none", <<>>),
                             account.calls, <<>>,
                             Deliver("getmail",
                                     Reply("error_create", NoAddress, account.err, <<>>),
                                     replyOut))
             /\ UNCHANGED <<user_sessions, data_file>>
        ELSE LET tok == get_token_for_account(account.payload.address,
                                              account.payload.password, loginOut)
                 calls == account.calls \o tok.calls
                 up == Upstream(domains, regOut.status, tok.jwt, "none", <<>>)
             IN  IF tok.raised
                 THEN /\ last' = Last("getmail", u, up, calls, <<>>,
                                      Deliver("getmail",
                                              Reply("error_create", NoAddress, tok.err, <<>>),
                                              replyOut))
                      /\ UNCHANGED <<user_sessions, data_file>>
                 ELSE IF loaded = "list"    \* list[str] = ... raises TypeError
                 THEN /\ last' = Last("getmail", u, up, calls, <<>>,
                                      Deliver("getmail",
                                              Reply("error_create", NoAddress, "TypeError", <<>>),
                                              replyOut))
                      /\ UNCHANGED <<user_sessions, data_file>>
                 ELSE LET rec == [address |-> account.payload.address,
                                  password |-> account.payload.password,
                                  jwt |-> tok.jwt]
                          stored == Put(user_sessions, u, rec)
                          saved == save_sessions(stored, data_file, saveOut)
                      IN  /\ user_sessions' = stored
                          /\ data_file' = saved.file
                          /\ last' = Last("getmail", u, up, calls, <<>>,
                                Deliver("getmail",
                                        IF saved.raised
                                        THEN Reply("error_create", NoAddress, "OSError", <<>>)
                                        ELSE Reply("created", rec.address, "", <<>>),
                                        replyOut))

\* get_mail with the "already have" check left out
get_mail_overwrite(u, local, password, domains, regOut, loginOut, saveOut, replyOut) ==
    provision(u, local, password, domains, regOut, loginOut, saveOut, replyOut)

get_mail(u, local, password, domains, regOut, loginOut, saveOut, replyOut) ==
    IF u \in DOMAIN user_sessions
    THEN /\ last' = Last("getmail", u, NoUpstream, <<>>, <<>>,
                         Deliver("getmail",
                                 Reply("already", user_sessions[u].address, "", <<>>),
                                 replyOut))
         /\ UNCHANGED <<user_sessions, data_file>>
    ELSE provision(u, local, password, domains, regOut, loginOut, saveOut, replyOut)

\* inbox that forgets the session when the listing cannot be fetched
inbox_drop_on_error(u, fetchOut, replyOut) ==
    LET up == Upstream({}, 0, Null, fetchOut.kind, fetchOut.pages)
    IN  IF u \notin DOMAIN user_sessions
        THEN /\ last' = Last("inbox", u, NoUpstream, <<>>, <<>>,
                             Reply("no_session", NoAddress, "", <<>>))
             /\ UNCHANGED <<user_sessions, data_file>>
        ELSE LET got == get_messages(user_sessions[u].jwt, fetchOut)
             IN  IF got.raised
                 THEN /\ user_sessions' = Del(user_sessions, u)
                      /\ data_file' = JsonDump(Del(user_sessions, u))
                      /\ last' = Last("inbox", u, up, got.calls, <<>>,
                                      Reply("error_fetch", NoAddress, got.err, <<>>))
                 ELSE /\ last' = Last("inbox", u, up, got.calls, got.messages,
                            IF got.messages = <<>>
                            THEN Reply("empty", NoAddress, "", <<>>)
                            ELSE Reply("messages", NoAddress, "", RenderInbox(got.messages)))
                      /\ UNCHANGED <<user_sessions, data_file>>

inbox(u, fetchOut, replyOut) ==
    LET up == Upstream({}, 0, Null, fetchOut.kind, fetchOut.pages)
    IN  /\ UNCHANGED <<user_sessions, data_file>>
        /\ IF u \notin DOMAIN user_sessions
           THEN last' = Last("inbox", u, NoUpstream, <<>>, <<>>,
                             Deliver("inbox", Reply("no_session", NoAddress, "", <<>>), replyOut))
           ELSE LET session == user_sessions[u]
                    got == get_messages(session.jwt, fetchOut)
                IN  IF got.raised
                    THEN last' = Last("inbox", u, up, got.calls, <<>>,
                                      Deliver("inbox",
                                              Reply("error_fetch", NoAddress, got.err, <<>>),
                                              replyOut))
                    ELSE IF got.messages = <<>>
                    THEN last' = Last("inbox", u, up, got.calls, got.messages,
                                      Deliver("inbox", Reply("empty", NoAddress, "", <<>>),
                                              replyOut))
                    ELSE IF RenderRaises(got.messages)
                    THEN last' = Last("inbox", u, up, got.calls, got.messages,
                                      Deliver("inbox",
                                              Reply("error_fetch", NoAddress, "AttributeError", <<>>),
                                              replyOut))
                    ELSE last' = Last("inbox", u, up, got.calls, got.messages,
                                      Deliver("inbox",
                                              Reply("messages", NoAddress, "",
                                                    RenderInbox(got.messages)),
                                              replyOut))

\* reset_mail that deletes from the dict and does not rewrite data.json
reset_mail_nosave(u, saveOut, replyOut) ==
    IF u \in DOMAIN user_sessions
    THEN /\ user_sessions' = Del(user_sessions, u)
         /\ last' = Last("resetmail", u, NoUpstream, <<>>, <<>>,
                         Reply("reset_done", NoAddress, "", <<>>))
         /\ UNCHANGED data_file
    ELSE /\ last' = Last("resetmail", u, NoUpstream, <<>>, <<>>,
                         Reply("no_active", NoAddress, "", <<>>))
         /\ UNCHANGED <<user_sessions, data_file>>

\* reset_mail has no try block: when save_sessions raises, the exception
\* leaves the handler and no reply is sent
reset_mail(u, saveOut, replyOut) ==
    IF u \in DOMAIN user_sessions
    THEN LET remaining == Del(user_sessions, u)
             saved == save_sessions(remaining, data_file, saveOut)
         IN  /\ user_sessions' = remaining
             /\ data_file' = saved.file
             /\ last' = Last("resetmail", u, NoUpstream, <<>>, <<>>,
                   Deliver("resetmail",
                           IF saved.raised
                           THEN Reply("unhandled", NoAddress, "OSError", <<>>)
                           ELSE Reply("reset_done", NoAddress, "", <<>>),
                           replyOut))
    ELSE /\ last' = Last("resetmail", u, NoUpstream, <<>>, <<>>,
                         Deliver("resetmail", Reply("no_active", NoAddress, "", <<>>),
                                 replyOut))
         /\ UNCHANGED <<user_sessions, data_file>>

\* the process ends and is started again: user_sessions is loaded from data.json
NoneSuspended == [u \in Users |-> 0]

Restart ==
    /\ user_sessions' = LoadSessions(data_file)
    /\ loaded' = LoadedType(data_file)
    /\ suspended' = NoneSuspended
    /\ checking' = NoneSuspended
    /\ last' = Last("restart", "", NoUpstream, <<>>, <<>>, Reply("none", NoAddress, "", <<>>))
    /\ UNCHANGED data_file

\* handlers run only in a process whose import succeeded
Running == loaded # "failed"

----------------------------------------------------------------------------
Init ==
    /\ data_file = [kind |-> "absent", content |-> EmptyMap]
    /\ user_sessions = LoadSessions(data_file)
    /\ loaded = LoadedType(data_file)
    /\ suspended = NoneSuspended
    /\ checking = NoneSuspended
    /\ last = Last("restart", "", NoUpstream, <<>>, <<>>, Reply("none", NoAddress, "", <<>>))

\* Application.builder() leaves concurrent_updates off and the handlers are
\* registered with block=True: an update is handled to the end, replies
\* included, before the next one is taken
Sequential == UNCHANGED <<loaded, suspended, checking>>

DoStart ==
    /\ Running /\ Sequential
    /\ \E u \in Users, replyOut \in ReplyOutcomes : start(u, replyOut)

\* The inputs of one getmail.  A user who has a record gets the early reply:
\* nothing is drawn from os.urandom and nothing is asked of the upstream, so
\* one choice of those inputs stands for all.  This specification runs against
\* an upstream that offers domains; SpecProvision below covers the empty list.
AllGetMailInputs ==
    [local : Locals, password : Passwords, domains : UpstreamDomainSets, world : Worlds,
     reply : ReplyOutcomes]

\* A reply that Telegram refuses is combined with one run of the try block
\* per way it can end: with the "created" reply (line 120) and with the reply
\* of the except branch (line 125)
DeliveryWorlds ==
    Listed({w \in Worlds :
        /\ ~w.reg.raised
        /\ \/ w.reg.status = 422
           \/ w.reg.status = 201 /\ w.login.kind = "token" /\ w.save = "ok"})

ServedGetMailInputs ==
    Listed({i \in AllGetMailInputs :
        /\ i.domains # {}
        /\ i.reply # "sent" => i.world \in DeliveryWorlds})

GetMailInputs(u) ==
    IF u \in DOMAIN user_sessions
    THEN LET one == CHOOSE i \in ServedGetMailInputs : TRUE
         IN  {[one EXCEPT !.reply = r] : r \in ReplyOutcomes}
    ELSE ServedGetMailInputs

DoGetMail ==
    /\ Running /\ Sequential
    /\ \E u \in Users : \E i \in GetMailInputs(u) :
        get_mail(u, i.local, i.password, i.domains, i.world.reg, i.world.login, i.world.save,
                 i.reply)

\* inbox writes neither user_sessions nor data.json.  In this specification,
\* which follows the session store through every outcome of getmail and
\* resetmail, it meets one fetch that fails and one that lists a message;
\* SpecInbox below gives it every answer of FetchOutcomes.
StoreFetchOutcomes ==
    {[kind |-> "http_error", pages |-> <<>>], [kind |-> "page", pages |-> <<<<"m1">>>>]}

DoInbox ==
    /\ Running /\ Sequential
    /\ \E u \in Users, fetchOut \in StoreFetchOutcomes, replyOut \in ReplyOutcomes :
        inbox(u, fetchOut, replyOut)

\* reset_mail sends no reply after a failed write
ResetMailInputs ==
    Listed({i \in [save : SaveOutcomes, reply : ReplyOutcomes] :
        i.reply # "sent" => i.save = "ok"})

DoResetMail ==
    /\ Running /\ Sequential
    /\ \E u \in Users : \E i \in ResetMailInputs : reset_mail(u, i.save, i.reply)

Next == DoStart \/ DoGetMail \/ DoInbox \/ DoResetMail \/ Restart

Spec == Init /\ [][Next]_vars

----------------------------------------------------------------------------
(* Smaller input sets for the specifications below: one answer per branch *)

CoreWorlds ==
    Listed({w \in Worlds :
        /\ ~w.reg.raised /\ w.reg.status \in {201, 422}
        /\ w.login.kind \in {"exc", "http_error", "token"}
        /\ w.save \in {"ok", "write_fail"}})

CoreGetMailInputs ==
    Listed({i \in AllGetMailInputs :
        i.domains = {"mailto.plus", "other.tm"} /\ i.world \in CoreWorlds})

CoreFetchOutcomes ==
    Listed({f \in FetchOutcomes :
        f.kind = "http_error" \/ (f.kind = "page" /\ Len(f.pages) = 1)})

CoreGetMail ==
    \E u \in Users : \E i \in CoreGetMailInputs :
        get_mail(u, i.local, i.password, i.domains, i.world.reg, i.world.login, i.world.save,
                 i.reply)

CoreInbox ==
    \E u \in Users, fetchOut \in CoreFetchOutcomes, replyOut \in ReplyOutcomes :
        inbox(u, fetchOut, replyOut)

CoreResetMail ==
    \E u \in Users, saveOut \in {"ok", "write_fail"}, replyOut \in ReplyOutcomes :
        reset_mail(u, saveOut, replyOut)

----------------------------------------------------------------------------
(* The inbox command against every answer of GET /messages and of Telegram *)

InboxGetMail == Running /\ Sequential /\ CoreGetMail
InboxResetMail == Running /\ Sequential /\ CoreResetMail
InboxInbox ==
    /\ Running /\ Sequential
    /\ \E u \in Users, fetchOut \in FetchOutcomes, replyOut \in ReplyOutcomes :
        inbox(u, fetchOut, replyOut)

NextInbox == InboxGetMail \/ InboxResetMail \/ InboxInbox

SpecInbox == Init /\ [][NextInbox]_vars

----------------------------------------------------------------------------
(* Provisioning against every upstream domain list, the empty one included *)

ProvisionInputs == Listed({i \in AllGetMailInputs : i.world \in CoreWorlds})

ProvGetMail ==
    /\ Running /\ Sequential
    /\ \E u \in Users : \E i \in ProvisionInputs :
        get_mail(u, i.local, i.password, i.domains, i.world.reg, i.world.login, i.world.save,
                 i.reply)

ProvResetMail == Running /\ Sequential /\ CoreResetMail

NextProvision == ProvGetMail \/ ProvResetMail

SpecProvision == Init /\ [][NextProvision]_vars

----------------------------------------------------------------------------
(* A start on a data.json that is corrupt or unreadable *)

InitStartup ==
    /\ data_file \in CorruptFiles
    /\ user_sessions = LoadSessions(data_file)
    /\ loaded = LoadedType(data_file)
    /\ suspended = NoneSuspended
    /\ checking = NoneSuspended
    /\ last = Last("restart", "", NoUpstream, <<>>, <<>>, Reply("none", NoAddress, "", <<>>))

StartupGetMail == Running /\ Sequential /\ CoreGetMail
StartupInbox == Running /\ Sequential /\ CoreInbox
StartupResetMail == Running /\ Sequential /\ CoreResetMail

NextStartup == StartupGetMail \/ StartupInbox \/ StartupResetMail \/ Restart

SpecStartup == InitStartup /\ [][NextStartup]_vars

----------------------------------------------------------------------------
(* Handlers as coroutines.  A handler runs without interruption up to its
   first await, which in every handler of bot.py is the await of a reply after
   its last access to user_sessions and data.json, and waits there until
   reply_text returns or raises.  Here the wait is a state of its own and the
   outcome of reply_text a later step; last.reply is the reply being sent. *)

RECURSIVE SumOver(_, _)
SumOver(f, S) ==
    IF S = {} THEN 0
    ELSE LET x == CHOOSE y \in S : TRUE IN f[x] + SumOver(f, S \ {x})

\* the application starts the handler of an update when no handler is running
Room == SumOver(suspended, Users) = 0

\* the update has a message and the handler reaches an await, or it has none
\* and the handler is left by the AttributeError before any await
ReachesAwait == {"sent", "no_message"}

\* the handler of u reaches its await, unless an exception left it before
Suspend(u) ==
    /\ suspended' = IF last'.reply.kind = "unhandled"
                    THEN suspended
                    ELSE [suspended EXCEPT ![u] = @ + 1]
    /\ UNCHANGED <<loaded, checking>>

ConcGetMail ==
    /\ Running /\ Room
    /\ \E u \in Users : \E i \in CoreGetMailInputs :
        /\ i.reply \in ReachesAwait
        /\ get_mail(u, i.local, i.password, i.domains, i.world.reg, i.world.login, i.world.save,
                    i.reply)
        /\ Suspend(u)

ConcInbox ==
    /\ Running /\ Room
    /\ \E u \in Users, fetchOut \in CoreFetchOutcomes, replyOut \in ReachesAwait :
        inbox(u, fetchOut, replyOut) /\ Suspend(u)

ConcResetMail ==
    /\ Running /\ Room
    /\ \E u \in Users, saveOut \in {"ok", "write_fail"}, replyOut \in ReachesAwait :
        reset_mail(u, saveOut, replyOut) /\ Suspend(u)

\* the awaited reply_text returns and the handler ends
ReplySent ==
    \E u \in Users :
        /\ suspended[u] > 0
        /\ suspended' = [suspended EXCEPT ![u] = @ - 1]
        /\ UNCHANGED <<user_sessions, data_file, last, loaded, checking>>

\* the awaited reply_text raises: inside a try block the handler goes on to
\* the await of its except branch, elsewhere the exception ends it
ReplyRaised ==
    \E u \in Users :
        /\ suspended[u] > 0
        /\ last.user = u
        /\ LET next == AfterRaise(last.cmd, last.reply, "TelegramError")
           IN  /\ last' = [last EXCEPT !.reply = next]
               /\ suspended' = IF next.kind = "unhandled"
                               THEN [suspended EXCEPT ![u] = @ - 1]
                               ELSE suspended
        /\ UNCHANGED <<user_sessions, data_file, loaded, checking>>

NextConc == ConcGetMail \/ ConcInbox \/ ConcResetMail \/ ReplySent \/ ReplyRaised

SpecConc == Init /\ [][NextConc]_vars

----------------------------------------------------------------------------
(* Handler coroutines that overlap.  The application bot.py builds never runs
   two handlers at once (Room); section 5 of the specification leaves the
   dispatch of commands to the surrounding layer, which may handle them
   concurrently.  This specification lifts that one restriction: a handler
   starts while others wait, up to MaxTasks in flight, and control changes
   hands only where a coroutine awaits.  The code each coroutine runs between
   its awaits is that of bot.py.  A reply_text that raises inside a try block
   leads to the await of the except branch, which writes nothing: here the
   coroutine just goes on waiting, and last.reply is the first reply a handler
   sends. *)

Overlap == SumOver(suspended, Users) + SumOver(checking, Users) < MaxTasks

\* get_mail that awaits between the check and the try block
get_mail_awaits_after_check == <<"create", "reply">>

\* The awaits a get_mail coroutine of a user without a record passes, in
\* program order: the reply of line 120 or of line 125.  Between the check of
\* line 101 and the store and save of lines 113-118 it awaits nothing.
get_mail_awaits == <<"reply">>

OverGetMail ==
    /\ Running /\ Overlap
    /\ \E u \in Users : \E i \in CoreGetMailInputs :
        /\ i.reply \in ReachesAwait
        /\ IF u \notin DOMAIN user_sessions /\ Head(get_mail_awaits) = "create"
           THEN /\ checking' = [checking EXCEPT ![u] = @ + 1]
                /\ UNCHANGED <<user_sessions, data_file, last, loaded, suspended>>
           ELSE /\ get_mail(u, i.local, i.password, i.domains, i.world.reg, i.world.login,
                            i.world.save, i.reply)
                /\ Suspend(u)

OverInbox ==
    /\ Running /\ Overlap
    /\ \E u \in Users, fetchOut \in CoreFetchOutcomes, replyOut \in ReachesAwait :
        inbox(u, fetchOut, replyOut) /\ Suspend(u)

OverResetMail ==
    /\ Running /\ Overlap
    /\ \E u \in Users, saveOut \in {"ok", "write_fail"}, replyOut \in ReachesAwait :
        reset_mail(u, saveOut, replyOut) /\ Suspend(u)

\* A waiting coroutine is resumed.  One that waited in a reply_text ends.  One
\* that waited before the try block of get_mail would run the block with the
\* check of line 101 behind it; get_mail_awaits has no await there.
OverResume ==
    \E u \in Users, at \in {"reply", "create"} :
        IF at = "reply"
        THEN /\ suspended[u] > 0
             /\ suspended' = [suspended EXCEPT ![u] = @ - 1]
             /\ UNCHANGED <<user_sessions, data_file, last, loaded, checking>>
        ELSE /\ checking[u] > 0
             /\ \E i \in CoreGetMailInputs :
                    /\ i.reply \in ReachesAwait
                    /\ provision(u, i.local, i.password, i.domains, i.world.reg,
                                 i.world.login, i.world.save, i.reply)
             /\ checking' = [checking EXCEPT ![u] = @ - 1]
             /\ suspended' = IF last'.reply.kind = "unhandled"
                             THEN suspended
                             ELSE [suspended EXCEPT ![u] = @ + 1]
             /\ UNCHANGED loaded

NextOverlap == OverGetMail \/ OverInbox \/ OverResetMail \/ OverResume

SpecOverlap == Init /\ [][NextOverlap]_vars

----------------------------------------------------------------------------
(* Inbox Retriever getBody.  bot.py registers start, getmail, inbox and
   resetmail only and has no body fetch; this part follows section 4.2 of the
   specification: fetch the single message, take its plain text if present,
   else the first element of its HTML representation, else the empty string;
   decode entities, strip tags, trim; an empty result becomes the empty-body
   marker and a failed fetch the error-body marker. *)

MaxBodyLen == 2     \* tokens of one message body

BodyTokens == {"Hi", "&nbsp;", "<b>", " "}
ErrorBodySentinel == "(error-body marker)"
EmptyBodySentinel == "(empty-body marker)"

Bodies == SeqsUpTo(BodyTokens, MaxBodyLen)

\* GET /messages/{id}: the call raises, the status is an error, the body is
\* not JSON, or a resource with an optional text and a list of HTML parts
BodyOutcomes ==
    {[kind |-> k, text |-> <<>>, html |-> <<>>] : k \in {"exc", "http_error", "bad_json"}}
        \cup {[kind |-> "resource", text |-> <<b>>, html |-> <<>>] : b \in Bodies}
        \cup {[kind |-> "resource", text |-> <<>>, html |-> <<b>>] : b \in Bodies}
        \cup {[kind |-> "resource", text |-> <<>>, html |-> <<>>]}

RECURSIVE DecodeEntities(_)
DecodeEntities(body) ==
    IF body = <<>> THEN <<>>
    ELSE <<IF Head(body) = "&nbsp;" THEN " " ELSE Head(body)>> \o DecodeEntities(Tail(body))

IsTag(token) == token = "<b>"
StripTags(body) == SelectSeq(body, LAMBDA t : ~IsTag(t))

RECURSIVE TrimLeft(_)
TrimLeft(body) ==
    IF body # <<>> /\ Head(body) = " " THEN TrimLeft(Tail(body)) ELSE body

RECURSIVE TrimRight(_)
TrimRight(body) ==
    IF body # <<>> /\ body[Len(body)] = " "
    THEN TrimRight(SubSeq(body, 1, Len(body) - 1))
    ELSE body

Trim(body) == TrimRight(TrimLeft(body))

\* getBody that lets the fetch error reach its caller
getBody_raises(jwt_token, messageId, bodyOut) ==
    [raised |-> bodyOut.kind # "resource",
     calls |-> <<Call("GET /messages/{id}", NoAddress, "", jwt_token)>>,
     text |-> <<>>]

getBody(jwt_token, messageId, bodyOut) ==
    LET calls == <<Call("GET /messages/{id}", NoAddress, "", jwt_token)>>
        raw == IF bodyOut.text # <<>> THEN bodyOut.text[1]
               ELSE IF bodyOut.html # <<>> THEN bodyOut.html[1]
               ELSE <<>>
        clean == Trim(StripTags(DecodeEntities(raw)))
    IN  IF bodyOut.kind # "resource"
        THEN [raised |-> FALSE, calls |-> calls, text |-> <<ErrorBodySentinel>>]
        ELSE IF clean = <<>>
        THEN [raised |-> FALSE, calls |-> calls, text |-> <<EmptyBodySentinel>>]
        ELSE [raised |-> FALSE, calls |-> calls, text |-> clean]

\* a caller with the credential of u asks for the body of one message
get_body(u, messageId, bodyOut) ==
    /\ u \in DOMAIN user_sessions
    /\ LET got == getBody(user_sessions[u].jwt, messageId, bodyOut)
           up == Upstream({}, 0, Null, bodyOut.kind, <<>>)
       IN  last' = Last("getbody", u, up, got.calls, <<messageId>>,
                     IF got.raised
                     THEN Reply("error_body", NoAddress, "FetchFailed", <<>>)
                     ELSE Reply("body", NoAddress, "", got.text))
    /\ UNCHANGED <<user_sessions, data_file>>

BodyGetMail == Running /\ Sequential /\ CoreGetMail
BodyInbox == Running /\ Sequential /\ CoreInbox
BodyGetBody ==
    /\ Running /\ Sequential
    /\ \E u \in Users, messageId \in Msgs, bodyOut \in BodyOutcomes :
        get_body(u, messageId, bodyOut)

NextBody == BodyGetMail \/ BodyInbox \/ BodyGetBody

SpecBody == Init /\ [][NextBody]_vars

----------------------------------------------------------------------------
(* Properties *)

Ops(calls) == {calls[i].op : i \in DOMAIN calls}

\* the domain set a GET /domains call of this command brought back
FetchedDomains(l) == IF "GET /domains" \in Ops(l.calls) THEN l.upstream.domains ELSE {}

\* C1: create-once.  A getmail by a user who has a record makes no upstream
\* call, leaves user_sessions as it was and the reply it sends is the one
\* with the stored address (no other reply follows when Telegram refuses it);
\* while the process runs a record present before and after a command is the
\* same record, a record appears only through getmail of its own user who
\* had none, and disappears only through resetmail of its own user.
C1_CreateOnce ==
    [][ /\ \A u \in Users :
            (last'.cmd = "getmail" /\ last'.user = u /\ u \in DOMAIN user_sessions) =>
                /\ last'.calls = <<>>
                /\ user_sessions' = user_sessions
                /\ last'.reply.kind # "unhandled" =>
                        last'.reply = Reply("already", user_sessions[u].address, "", <<>>)
        /\ last'.cmd # "restart" =>
            /\ \A u \in (DOMAIN user_sessions) \cap (DOMAIN user_sessions') :
                    user_sessions'[u] = user_sessions[u]
            /\ \A u \in (DOMAIN user_sessions') \ (DOMAIN user_sessions) :
                    last'.cmd = "getmail" /\ last'.user = u
            /\ \A u \in (DOMAIN user_sessions) \ (DOMAIN user_sessions') :
                    last'.cmd = "resetmail" /\ last'.user = u
      ]_vars

C1_Witness ==
    /\ last.cmd = "getmail"
    /\ last.reply.kind = "already"
    /\ last.user \in DOMAIN user_sessions
    /\ last.reply.address = user_sessions[last.user].address

\* C2: after every getmail that stores a record and every resetmail that
\* deletes one, whatever the outcome of writing the file, data.json holds
\* exactly the records of user_sessions.
C2_FileEqualsMemory ==
    [][ (last'.cmd \in {"getmail", "resetmail"} /\ user_sessions' # user_sessions)
            => FileRecords(data_file') = user_sessions' ]_vars

\* C3: a restart changes nobody's record: after the reload from data.json
\* every user has the record (or the absence of one) they had before.
C3_RestartKeepsRecords ==
    [][ last'.cmd = "restart" => user_sessions' = user_sessions ]_vars

\* C4: when getmail ends with a failure reply, neither user_sessions nor
\* data.json holds a record for that user.
C4_FailedCreateLeavesNothing ==
    (last.cmd = "getmail" /\ last.reply.kind = "error_create") =>
        /\ last.user \notin DOMAIN user_sessions
        /\ last.user \notin DOMAIN FileRecords(data_file)

\* C5: a login answer without a token stores nothing, so every stored
\* session record carries a non-empty jwt.
C5_StoredTokenNonEmpty ==
    \A u \in DOMAIN user_sessions :
        user_sessions[u].jwt # Null /\ user_sessions[u].jwt # ""

\* C6: an inbox listing that was fetched without error is the concatenation
\* of all upstream pages in page order.
C6_AllPagesConcatenated ==
    (last.cmd = "inbox" /\ last.upstream.fetch = "page") =>
        last.messages = Concat(last.upstream.pages)

\* C7: when the fetch of the listing fails, the inbox command ends with the
\* failure notice alone (or, when Telegram refuses the notice, with no reply
\* at all): no listing is returned and no summary is rendered.
C7_FetchFailureNoPartial ==
    (last.cmd = "inbox" /\ last.upstream.fetch \in {"exc", "http_error", "bad_json"}) =>
        /\ last.reply.kind \in {"error_fetch", "unhandled"}
        /\ last.reply.rendered = <<>>
        /\ last.messages = <<>>

C7_Witness ==
    /\ last.cmd = "inbox"
    /\ last.upstream.fetch \in {"exc", "http_error", "bad_json"}
    /\ last.reply.kind = "error_fetch"
    /\ Len(last.calls) = 1

\* C8: a provisioning run first asks the upstream for its domains, and when
\* that list is empty it makes no registration call.
C8_NoDomainsNoRegistration ==
    (last.cmd = "getmail" /\ last.calls # <<>> /\ last.upstream.domains = {}) =>
        /\ "GET /domains" \in Ops(last.calls)
        /\ "POST /accounts" \notin Ops(last.calls)
        /\ last.reply.kind = "error_create"

\* C9: the address of a credential stored by a successful getmail has a
\* domain that is in the domain set fetched earlier in the same run.
C9_DomainFromFetchedSet ==
    (last.cmd = "getmail" /\ last.reply.kind = "created") =>
        /\ last.reply.address.local # "" /\ last.reply.address.domain # ""
        /\ last.reply.address.domain \in FetchedDomains(last)

\* C10: session store semantics.  put-get: the record getmail stores is the
\* address and password it registered and the token the login returned, and
\* later lookups use exactly the stored record (getmail replies with its
\* address, inbox authorises with its jwt).  remove-get: resetmail of a user
\* with a record leaves that user without one.  get of an absent user: inbox
\* and resetmail report the absence and change neither user_sessions nor
\* data.json.
C10_StoreSemantics ==
    [][ \A u \in Users :
          /\ (last'.cmd = "getmail" /\ last'.user = u /\ u \notin DOMAIN user_sessions
                /\ u \in DOMAIN user_sessions') =>
                /\ Len(last'.calls) = 2
                /\ user_sessions'[u] = [address |-> last'.calls[1].address,
                                        password |-> last'.calls[1].password,
                                        jwt |-> last'.upstream.token]
          /\ (last'.cmd = "getmail" /\ last'.user = u /\ u \in DOMAIN user_sessions
                /\ last'.reply.kind # "unhandled") =>
                last'.reply.address = user_sessions[u].address
          /\ (last'.cmd = "inbox" /\ last'.user = u /\ u \in DOMAIN user_sessions) =>
                /\ Len(last'.calls) = 1
                /\ last'.calls[1].bearer = user_sessions[u].jwt
          /\ (last'.cmd = "resetmail" /\ last'.user = u /\ u \in DOMAIN user_sessions) =>
                u \notin DOMAIN user_sessions'
          /\ (last'.cmd \in {"inbox", "resetmail"} /\ last'.user = u
                /\ u \notin DOMAIN user_sessions) =>
                /\ last'.reply.kind \in {"no_session", "no_active", "unhandled"}
                /\ last'.calls = <<>>
                /\ UNCHANGED <<user_sessions, data_file>>
      ]_vars

C10_Witness ==
    /\ last.cmd = "resetmail"
    /\ last.reply.kind = "reset_done"
    /\ last.user \notin DOMAIN user_sessions
    /\ user_sessions # EmptyMap

\* C11: a process started on a corrupt or unreadable data.json runs, with an
\* empty session dict, and commands work on it: a getmail whose registration,
\* login and file write all succeed ends with the created reply.
C11_CorruptStartsEmpty ==
    /\ (last.cmd = "restart" /\ data_file \in CorruptFiles) =>
            /\ loaded = "dict"
            /\ user_sessions = EmptyMap
    /\ (last.cmd = "getmail" /\ Len(last.calls) = 2 /\ last.upstream.token # Null
            /\ last.reply.err \notin {"RequestException", "HTTPError", "JSONDecodeError", "OSError",
                                      "TelegramError", "AttributeError"})
            => last.reply.kind = "created"

\* C12: reset enables a fresh mailbox.  When resetmail of a user who had a
\* record has sent its reply, the user has no record in user_sessions and none
\* in data.json; the user stays without one in both until their next getmail;
\* and a getmail by a user without a record does not answer with a stored
\* address: it registers (POST /accounts first, POST /token after it unless
\* the registration failed) and, when it replies "created", the record it
\* stored in memory and on disk is the one it just registered.
C12_ResetEnablesFresh ==
    [][ \A u \in Users :
          /\ (last'.cmd = "resetmail" /\ last'.user = u /\ last'.reply.kind = "reset_done") =>
                /\ u \in DOMAIN user_sessions
                /\ u \notin DOMAIN user_sessions'
                /\ u \notin DOMAIN FileRecords(data_file')
          /\ (u \notin DOMAIN user_sessions /\ u \notin DOMAIN FileRecords(data_file)
                /\ ~(last'.cmd = "getmail" /\ last'.user = u)) =>
                /\ u \notin DOMAIN user_sessions'
                /\ u \notin DOMAIN FileRecords(data_file')
          /\ (u \notin DOMAIN user_sessions /\ last'.cmd = "getmail" /\ last'.user = u) =>
                /\ last'.reply.kind \in {"created", "error_create", "unhandled"}
                /\ Len(last'.calls) \in {1, 2}
                /\ last'.calls[1].op = "POST /accounts"
                /\ Len(last'.calls) = 2 => last'.calls[2].op = "POST /token"
                /\ (Len(last'.calls) = 1 /\ last'.reply.kind = "error_create") =>
                      last'.reply.err \in {"RequestException", "RuntimeError"}
                /\ last'.reply.kind = "created" =>
                      /\ u \in DOMAIN user_sessions'
                      /\ user_sessions'[u].address = last'.calls[1].address
                      /\ last'.reply.address = last'.calls[1].address
                      /\ u \in DOMAIN FileRecords(data_file')
                      /\ FileRecords(data_file')[u] = user_sessions'[u]
      ]_vars

C12_Witness ==
    /\ last.cmd = "resetmail"
    /\ last.reply.kind = "reset_done"
    /\ last.user \notin DOMAIN user_sessions
    /\ data_file.kind = "json"
    /\ last.user \notin DOMAIN data_file.content
    /\ data_file.content # EmptyMap

\* C13: provisioning step order.  In one getmail the calls are POST /accounts
\* and then, only when that call returned status 200 or 201, POST /token; a
\* registration response with another status ends the run with the
\* RuntimeError "Failed to create account" and without a login call; and a
\* record is stored only by a run in which the registration returned 200 or
\* 201 and the login call returned without raising.
C13_StepOrder ==
    [][ \A u \in Users : (last'.cmd = "getmail" /\ last'.user = u) =>
          /\ "POST /token" \in Ops(last'.calls) =>
                /\ Len(last'.calls) = 2
                /\ last'.calls[1].op = "POST /accounts"
                /\ last'.calls[2].op = "POST /token"
                /\ last'.calls[2].address = last'.calls[1].address
                /\ last'.calls[2].password = last'.calls[1].password
                /\ last'.upstream.status \in {200, 201}
          /\ (last'.calls # <<>> /\ last'.upstream.status \notin {0, 200, 201}) =>
                /\ last'.reply.kind \in {"error_create", "unhandled"}
                /\ last'.reply.kind = "error_create" => last'.reply.err = "RuntimeError"
                /\ Len(last'.calls) = 1
                /\ UNCHANGED <<user_sessions, data_file>>
          /\ (u \notin DOMAIN user_sessions /\ u \in DOMAIN user_sessions') =>
                /\ Len(last'.calls) = 2
                /\ last'.upstream.status \in {200, 201}
                /\ last'.reply.err \notin {"RequestException", "HTTPError", "JSONDecodeError"}
      ]_vars

C13_Witness ==
    /\ last.cmd = "getmail"
    /\ last.upstream.status = 422
    /\ last.reply.err = "RuntimeError"
    /\ Len(last.calls) = 1

\* C16: the inbox reply renders the first min(n, 5) summaries of the n it
\* was given, in the order given, and when n is more than 5 it ends with the
\* truncation sentinel line.
TruncationSentinel == "... (showing first 5 messages only)"

C16_CapWithSentinel ==
    (last.cmd = "inbox" /\ last.reply.kind = "messages") =>
        LET n == Len(last.messages)
            first == SubSeq(last.messages, 1, Min(n, PreviewLimit))
        IN  last.reply.rendered =
                IF n > PreviewLimit THEN Append(first, TruncationSentinel) ELSE first

\* C18: inbox is read-only.  On each of its paths (no session, fetch
\* failure, empty listing, listing rendered) it leaves user_sessions and
\* data.json as they were; a user whose fetch fails keeps the same record and
\* gets the failure reply.
C18_InboxReadOnly ==
    [][ \A u \in Users : (last'.cmd = "inbox" /\ last'.user = u) =>
          /\ user_sessions' = user_sessions
          /\ data_file' = data_file
          /\ u \notin DOMAIN user_sessions => last'.reply.kind \in {"no_session", "unhandled"}
          /\ u \in DOMAIN user_sessions =>
                /\ last'.upstream.fetch \in {"exc", "http_error", "bad_json"}
                        => last'.reply.kind \in {"error_fetch", "unhandled"}
                /\ last'.upstream.fetch \in {"no_member", "page"}
                        => last'.reply.kind \in {"empty", "messages", "error_fetch", "unhandled"}
                /\ u \in DOMAIN user_sessions' /\ user_sessions'[u] = user_sessions[u]
      ]_vars

C18_Witness ==
    /\ last.cmd = "inbox"
    /\ last.upstream.fetch = "http_error"
    /\ last.reply.kind = "error_fetch"
    /\ last.user \in DOMAIN user_sessions
    /\ last.user \in DOMAIN FileRecords(data_file)

\* a step in which a handler of user a ran from its start to its first await
\* or to the exception that left it (and not one in which a reply_text
\* returned or raised)
HandlerStepOf(a) ==
    /\ last'.user = a
    /\ \/ suspended'[a] > suspended[a]
       \/ suspended' = suspended /\ last'.reply.kind = "unhandled"

RecordOf(sessions, u) == IF u \in DOMAIN sessions THEN <<sessions[u]>> ELSE <<>>

\* C14: handlers of different users may interleave, and a command of user A
\* never creates, changes or deletes the record of another user B, neither
\* in user_sessions nor in data.json.
C14_OtherUsersUntouched ==
    [][ \A a, b \in Users : (a # b /\ HandlerStepOf(a)) =>
          /\ RecordOf(user_sessions', b) = RecordOf(user_sessions, b)
          /\ RecordOf(FileRecords(data_file'), b) = RecordOf(FileRecords(data_file), b)
      ]_vars

\* C17: check-then-create of one user is atomic.  With handler coroutines
\* of the same user in flight together and control changing hands at awaits
\* only: no get_mail coroutine ever waits between its check and its store; a
\* stored record is never overwritten; a getmail that runs while the user has
\* a record registers nothing; a record appears only in a getmail step of its
\* user that made exactly one POST /accounts call, for the address stored; and
\* a coroutine that is resumed from its await writes nothing.
C17_CheckThenCreateAtomic ==
    [][ \A u \in Users :
          /\ checking'[u] = 0
          /\ (u \in DOMAIN user_sessions /\ u \in DOMAIN user_sessions') =>
                user_sessions'[u] = user_sessions[u]
          /\ (HandlerStepOf(u) /\ last'.cmd = "getmail" /\ u \in DOMAIN user_sessions) =>
                /\ "POST /accounts" \notin Ops(last'.calls)
                /\ user_sessions' = user_sessions
          /\ (u \notin DOMAIN user_sessions /\ u \in DOMAIN user_sessions') =>
                /\ HandlerStepOf(u)
                /\ last'.cmd = "getmail"
                /\ Cardinality({i \in DOMAIN last'.calls :
                                  last'.calls[i].op = "POST /accounts"}) = 1
                /\ user_sessions'[u].address = last'.calls[1].address
          /\ suspended'[u] < suspended[u] => UNCHANGED <<user_sessions, data_file>>
      ]_vars

\* two getmail coroutines of one user in flight: the second ran while the
\* first waited in its reply, found the record and answered with its address
C17_Witness ==
    /\ last.cmd = "getmail"
    /\ last.reply.kind = "already"
    /\ suspended[last.user] = 2
    /\ last.reply.address = user_sessions[last.user].address

\* C15: getBody always yields displayable text.  When the fetch of the
\* message fails it returns the error-body marker and no error reaches the
\* caller; every getBody result is a non-empty text; a failed fetch of the
\* listing, by contrast, ends the inbox command with the failure reply.
C15_BodyAlwaysText ==
    /\ (last.cmd = "getbody" /\ last.upstream.fetch \in {"exc", "http_error", "bad_json"}) =>
            last.reply = Reply("body", NoAddress, "", <<ErrorBodySentinel>>)
    /\ last.cmd = "getbody" =>
            /\ last.reply.kind = "body"
            /\ last.reply.err = ""
            /\ last.reply.rendered # <<>>
    /\ (last.cmd = "inbox" /\ last.upstream.fetch \in {"exc", "http_error", "bad_json"}) =>
            last.reply.kind \in {"error_fetch", "unhandled"}

C15_Witness ==
    /\ last.cmd = "getbody"
    /\ last.upstream.fetch = "http_error"
    /\ last.reply.rendered = <<ErrorBodySentinel>>

====
